---- MODULE Spec2Model ----
(***************************************************************************)
(* A model of FileSystemManager (src/main.py): the metadata-governed       *)
(* virtual file system with simulated block allocation, a read cache,      *)
(* per-file and metadata backups, recovery, defragmentation and the fault  *)
(* injector.                                                               *)
(*                                                                         *)
(* Representation.                                                         *)
(*  - A path is a sequence of tokens: the separator "/", the backslash     *)
(*    "\\" and atomic names (a name holds no separator and no underscore). *)
(*    "/d/f" is <<"/", "d", "/", "f">>, the root is <<"/">>.               *)
(*  - A content (a Python str) is [text, fill]: the characters of text     *)
(*    followed by fill copies of the character x; text itself holds no x,  *)
(*    so equal strings have equal representations.  Characters are ASCII,  *)
(*    one byte each.                                                       *)
(*  - The 'created' and 'modified' time stamps of the records are not      *)
(*    modelled; no property below reads them.                              *)
(*  - Time is the integer now (seconds); backup names carry it.            *)
(*  - A list of block ids (free_blocks, a record's blocks) is kept as the  *)
(*    sequence of its maximal runs of consecutive ascending ids:           *)
(*    [7, 8, 9, 1, 2] is <<[lo |-> 7, hi |-> 9], [lo |-> 1, hi |-> 2]>>.   *)
(*    Every list has exactly one such form; ListLen, Take, Drop, Cat work  *)
(*    on it as len, [:n], [n:] and extend work on the list.                *)
(***************************************************************************)
EXTENDS Integers, Sequences, FiniteSets, TLC

VARIABLES
    free_blocks,          \* self.free_blocks: list of block ids
    file_table,           \* self.file_table: file_id -> record
    directory_structure,  \* self.directory_structure: path -> entry
    read_cache,           \* self.read_cache: path -> content
    cache_timestamps,     \* self.cache_timestamps: path -> time
    cache_max_size,       \* self.cache_max_size
    cache_ttl,            \* self.cache_ttl
    metadata_file,        \* the durable metadata file fs_metadata.json
    backup_dir,           \* the files of .backups: name -> file content
    phys_files,           \* the regular files under root_dir: relative path -> content
    phys_dirs,            \* the directories under root_dir (relative paths)
    now,                  \* the clock, in seconds
    last,                 \* the last call and what it returned
    pristine,             \* history: path -> content, for the files made by
                          \* create_file and not read, written or deleted since
    steps,                \* history: the number of calls made so far
    inserted_at           \* history: path -> the time its entry of read_cache
                          \* was put there

vars == <<free_blocks, file_table, directory_structure, read_cache,
          cache_timestamps, cache_max_size, cache_ttl, metadata_file,
          backup_dir, phys_files, phys_dirs, now, last, pristine, steps,
          inserted_at>>

----------------------------------------------------------------------------
(* Program constants *)

block_size == 4096

InitialFreeBlocks == 1000

DefaultCacheMaxSize == 100

DefaultCacheTtl == 300

----------------------------------------------------------------------------
(* Generic helpers *)

Max(S) == CHOOSE x \in S : \A y \in S : y <= x

(* Lists of block ids, as runs *)
RECURSIVE ListLen(_)
ListLen(r) == IF r = <<>> THEN 0 ELSE r[1].hi - r[1].lo + 1 + ListLen(Tail(r))

\* list(range(lo, lo + n))
RangeList(lo, n) == IF n <= 0 THEN <<>> ELSE <<[lo |-> lo, hi |-> lo + n - 1]>>

\* a + b
Cat(a, b) ==
    IF a = <<>> THEN b
    ELSE IF b = <<>> THEN a
    ELSE IF a[Len(a)].hi + 1 = b[1].lo
    THEN SubSeq(a, 1, Len(a) - 1) \o <<[lo |-> a[Len(a)].lo, hi |-> b[1].hi]>> \o Tail(b)
    ELSE a \o b

\* r[:n]
RECURSIVE Take(_, _)
Take(r, n) ==
    IF n <= 0 \/ r = <<>> THEN <<>>
    ELSE LET k == r[1].hi - r[1].lo + 1
         IN IF n < k THEN <<[lo |-> r[1].lo, hi |-> r[1].lo + n - 1]>>
            ELSE <<r[1]>> \o Take(Tail(r), n - k)

\* r[n:]
RECURSIVE Drop(_, _)
Drop(r, n) ==
    IF r = <<>> THEN <<>>
    ELSE IF n <= 0 THEN r
    ELSE LET k == r[1].hi - r[1].lo + 1
         IN IF n < k THEN <<[lo |-> r[1].lo + n, hi |-> r[1].hi]>> \o Tail(r)
            ELSE Drop(Tail(r), n - k)

\* max(r), r not empty
ListMax(r) == Max({r[i].hi : i \in 1..Len(r)})

\* set(r)
Ids(r) == UNION {r[i].lo .. r[i].hi : i \in 1..Len(r)}

RECURSIVE SumLens(_, _)
SumLens(f, S) ==
    IF S = {} THEN 0
    ELSE LET k == CHOOSE k \in S : TRUE
         IN ListLen(f[k].blocks) + SumLens(f, S \ {k})

\* dict with key k removed / set
Del(f, k) == [x \in (DOMAIN f) \ {k} |-> f[x]]

Put(f, k, v) == [x \in (DOMAIN f) \cup {k} |-> IF x = k THEN v ELSE f[x]]

EmptyMap == [x \in {} |-> 0]

(* A Python dict whose iteration order matters is a sequence of [k, v] in  *)
(* insertion order.                                                        *)
OdKeys(d) == {d[i].k : i \in 1..Len(d)}

OdGet(d, k) == d[CHOOSE i \in 1..Len(d) : d[i].k = k].v

OdSet(d, k, v) ==
    IF k \in OdKeys(d)
    THEN [i \in 1..Len(d) |-> IF d[i].k = k THEN [k |-> k, v |-> v] ELSE d[i]]
    ELSE Append(d, [k |-> k, v |-> v])

OdDel(d, k) == SelectSeq(d, LAMBDA e : e.k # k)

----------------------------------------------------------------------------
(* Paths: str.replace, str.startswith, os.path.dirname/basename/join *)

ReplaceBackslash(p) == [i \in 1..Len(p) |-> IF p[i] = "\\" THEN "/" ELSE p[i]]

\* path.replace('\\', '/'); if not path.startswith('/'): path = '/' + path
NormalizePath(p) ==
    LET q == ReplaceBackslash(p)
    IN IF Len(q) > 0 /\ q[1] = "/" THEN q ELSE <<"/">> \o q

LastSlash(p) ==
    IF \E i \in 1..Len(p) : p[i] = "/"
    THEN Max({i \in 1..Len(p) : p[i] = "/"})
    ELSE 0

RECURSIVE RStripSlash(_)
RStripSlash(p) ==
    IF Len(p) > 0 /\ p[Len(p)] = "/" THEN RStripSlash(SubSeq(p, 1, Len(p) - 1))
    ELSE p

RECURSIVE LStripSlash(_)
LStripSlash(p) ==
    IF Len(p) > 0 /\ p[1] = "/" THEN LStripSlash(Tail(p)) ELSE p

\* posixpath.dirname
dirname(p) ==
    LET head == SubSeq(p, 1, LastSlash(p))
    IN IF head # <<>> /\ (\E i \in 1..Len(head) : head[i] # "/")
       THEN RStripSlash(head) ELSE head

\* posixpath.basename
basename(p) == SubSeq(p, LastSlash(p) + 1, Len(p))

\* posixpath.join(a, b)
PathJoin(a, b) ==
    IF Len(b) > 0 /\ b[1] = "/" THEN b
    ELSE IF a = <<>> \/ a[Len(a)] = "/" THEN a \o b
    ELSE a \o <<"/">> \o b

\* os.path.join(self.root_dir, path.lstrip('/')), relative to root_dir
PhysicalPath(path) == LStripSlash(path)

----------------------------------------------------------------------------
(* Contents *)

Str(t) == [kind |-> "text", text |-> t, fill |-> 0]

Xs(n) == [kind |-> "text", text |-> <<>>, fill |-> n]

\* len(content.encode())
ByteLen(c) == Len(c.text) + c.fill

\* what open(path, 'r').read() yields for the bytes of c: universal
\* newlines turn "\r\n" and a lone "\r" into "\n"
RECURSIVE TranslateNewlines(_)
TranslateNewlines(t) ==
    IF t = <<>> THEN <<>>
    ELSE IF t[1] = "\r"
         THEN IF Len(t) >= 2 /\ t[2] = "\n"
              THEN <<"\n">> \o TranslateNewlines(SubSeq(t, 3, Len(t)))
              ELSE <<"\n">> \o TranslateNewlines(Tail(t))
         ELSE <<t[1]>> \o TranslateNewlines(Tail(t))

ReadText(c) == [c EXCEPT !.text = TranslateNewlines(c.text)]

\* the marker simulate_disk_crash writes
CorruptMarker ==
    Str(<<"C","O","R","R","U","P","T","E","D"," ","D","A","T","A","!","!","!">>)

\* hashlib.md5 of a file's bytes, taken to be collision free
Md5(c) == <<"md5", c>>

\* BlocksNeeded rounding down
BlocksNeeded_floor(size) == size \div block_size

\* hashlib.md5(path.encode()).hexdigest()
FileId(path) == <<"id", path>>

BlocksNeeded(size) == (size + block_size - 1) \div block_size

----------------------------------------------------------------------------
(* The state of one FileSystemManager together with the disk it works on,  *)
(* as one record, so that the methods compose as the code's calls do.      *)

Cur ==
    [free_blocks |-> free_blocks, file_table |-> file_table,
     directory_structure |-> directory_structure,
     read_cache |-> read_cache, cache_timestamps |-> cache_timestamps,
     cache_max_size |-> cache_max_size, cache_ttl |-> cache_ttl,
     metadata_file |-> metadata_file, backup_dir |-> backup_dir,
     phys_files |-> phys_files, phys_dirs |-> phys_dirs]

Ret(s, r) == [st |-> s, ret |-> r]

\* a local name: the value of f for the value of e, e evaluated once
With(e, f(_)) == CHOOSE r \in {f(x) : x \in {e}} : TRUE

\* the durable metadata file: absent, unparsable, or a JSON document
Absent == [kind |-> "absent"]

InvalidJson == [kind |-> "invalid"]

Parsable(f) == f.kind = "json"

DirEntry(contents) == [type |-> "directory", contents |-> contents]

FileRef(file_id) == [type |-> "file", file_id |-> file_id, path |-> <<>>]

DirRef(path) == [type |-> "directory", file_id |-> <<>>, path |-> path]

(* Names in .backups.  A name is stem + "_" + time stamp (+ ".json"), kept *)
(* as the record [stem, ts, json]; stem is a token sequence.               *)
MetaBackupName(t) == [stem |-> <<"metadata_backup">>, ts |-> t, json |-> TRUE]

\* rel_path.replace('/', '_')
Flatten(rel) == [i \in 1..Len(rel) |-> IF rel[i] = "/" THEN "_" ELSE rel[i]]

FileBackupName(rel, t) == [stem |-> Flatten(rel), ts |-> t, json |-> FALSE]

IsPrefix(a, b) == Len(a) <= Len(b) /\ SubSeq(b, 1, Len(a)) = a

\* name.startswith(prefix), for a prefix that ends with "_" and holds no digit
StartsWith(name, prefix) == IsPrefix(prefix, name.stem \o <<"_">>)

\* os.path.relpath(physical_path, self.root_dir): normalised, no trailing slash
RelPath(pp) == RStripSlash(pp)

\* the directories os.makedirs(rel) visits
DirPrefixes(rel) ==
    {SubSeq(rel, 1, i) : i \in {j \in 1..Len(rel) :
        rel[j] # "/" /\ (j = Len(rel) \/ rel[j + 1] = "/")}}

\* self.backup_dir, relative to root_dir
BackupDirRel == <<".backups">>

\* os.makedirs(rel, exist_ok=True) raises when a regular file is in the way
MakedirsRaises(s, rel) == \E d \in DirPrefixes(rel) : d \in DOMAIN s.phys_files

Makedirs(s, rel) == [s EXCEPT !.phys_dirs = @ \cup DirPrefixes(rel)]

\* open(pp, 'w') raises: empty name, trailing slash, a directory, no parent
OpenWriteRaises(s, pp) ==
    \/ pp = <<>>
    \/ pp[Len(pp)] = "/"
    \/ pp \in s.phys_dirs
    \/ dirname(pp) # <<>> /\ dirname(pp) \notin s.phys_dirs

\* _calculate_checksum: the digest, or "" when the file cannot be read
calculate_checksum(files, pp) ==
    IF pp \in DOMAIN files THEN Md5(files[pp]) ELSE <<>>

\* the JSON document _save_metadata dumps
Snapshot(s) ==
    [kind |-> "json", block_size |-> block_size,
     free_blocks |-> s.free_blocks, file_table |-> s.file_table,
     directory_structure |-> s.directory_structure, last_updated |-> now]

\* _save_metadata: copy the existing metadata file to a backup, then rewrite;
\* a copy that raises (no backup directory) is caught and ends the save
save_metadata(s) ==
    IF s.metadata_file # Absent /\ BackupDirRel \notin s.phys_dirs THEN s
    ELSE LET b == IF s.metadata_file # Absent
                  THEN Put(s.backup_dir, MetaBackupName(now), s.metadata_file)
                  ELSE s.backup_dir
         IN [s EXCEPT !.backup_dir = b, !.metadata_file = Snapshot(s)]

\* allocate_blocks minting one identifier too high
allocate_blocks_gap(s, num_blocks) ==
    LET current_max == IF s.free_blocks # <<>> THEN ListMax(s.free_blocks) ELSE 0
        fb == IF ListLen(s.free_blocks) < num_blocks
              THEN Cat(s.free_blocks, RangeList(current_max + 2, num_blocks))
              ELSE s.free_blocks
    IN Ret([s EXCEPT !.free_blocks = Drop(fb, num_blocks)], Take(fb, num_blocks))

\* _allocate_blocks
allocate_blocks(s, num_blocks) ==
    LET current_max == IF s.free_blocks # <<>> THEN ListMax(s.free_blocks) ELSE 0
        fb == IF ListLen(s.free_blocks) < num_blocks
              THEN Cat(s.free_blocks, RangeList(current_max + 1, num_blocks))
              ELSE s.free_blocks
    IN Ret([s EXCEPT !.free_blocks = Drop(fb, num_blocks)], Take(fb, num_blocks))

\* a release that forgets the blocks
free_blocks_lost(s, blocks) == s

\* _free_blocks
free_blocks_op(s, blocks) == [s EXCEPT !.free_blocks = Cat(@, blocks)]

\* _backup_file: makes the backup directory when it is missing
backup_file(s, pp) ==
    IF pp \notin DOMAIN s.phys_files THEN s
    ELSE IF MakedirsRaises(s, BackupDirRel) THEN s
    ELSE [Makedirs(s, BackupDirRel) EXCEPT !.backup_dir =
            Put(@, FileBackupName(RelPath(pp), now), s.phys_files[pp])]

\* _initialize_file_system
initialize_file_system(s) ==
    save_metadata([s EXCEPT
        !.free_blocks = RangeList(1, InitialFreeBlocks),
        !.directory_structure = (<<"/">> :> DirEntry(<<>>)),
        !.file_table = EmptyMap])

\* create_file
create_file(s, rawpath, content) ==
    LET path == NormalizePath(rawpath)
        parent_dir == dirname(path)
        file_name == basename(path)
        physical_path == PhysicalPath(path)
    IN IF parent_dir \notin DOMAIN s.directory_structure THEN Ret(s, FALSE)
       ELSE IF file_name \in OdKeys(s.directory_structure[parent_dir].contents)
       THEN Ret(s, FALSE)
       ELSE IF MakedirsRaises(s, dirname(physical_path)) THEN Ret(s, FALSE)
       ELSE With(Makedirs(s, dirname(physical_path)), LAMBDA s1 :
            IF OpenWriteRaises(s1, physical_path) THEN Ret(s1, FALSE)
            ELSE With([s1 EXCEPT !.phys_files = Put(@, physical_path, content)], LAMBDA s2 :
                 With(allocate_blocks(s2, BlocksNeeded(ByteLen(content))), LAMBDA a :
                 LET file_size == ByteLen(content)
                     file_id == FileId(path)
                     s3 == [a.st EXCEPT
                             !.file_table = Put(@, file_id,
                                 [path |-> path, size |-> file_size,
                                  blocks |-> a.ret,
                                  checksum |-> calculate_checksum(s2.phys_files, physical_path)]),
                             !.directory_structure[parent_dir].contents =
                                 OdSet(@, file_name, FileRef(file_id))]
                 IN Ret(save_metadata(s3), TRUE))))

\* create_directory
RECURSIVE create_directory(_, _)
create_directory(s, rawpath) ==
    LET path == NormalizePath(rawpath)
        parent_dir == dirname(path)
        physical_path == RStripSlash(PhysicalPath(path))
        needParent == parent_dir # <<>> /\ parent_dir \notin DOMAIN s.directory_structure
    IN IF path \in DOMAIN s.directory_structure THEN Ret(s, FALSE)
       ELSE IF needParent /\ parent_dir = path THEN Ret(s, FALSE) \* RecursionError
       ELSE With(IF needParent THEN create_directory(s, parent_dir) ELSE Ret(s, TRUE),
                 LAMBDA r :
            IF ~r.ret THEN Ret(r.st, FALSE)
            ELSE IF MakedirsRaises(r.st, physical_path) THEN Ret(r.st, FALSE)
            ELSE With([Makedirs(r.st, physical_path) EXCEPT !.directory_structure =
                          Put(@, path, DirEntry(<<>>))], LAMBDA s2 :
                 LET dir_name == basename(path)
                     s3 == IF path # <<"/">>
                           THEN [s2 EXCEPT !.directory_structure[parent_dir].contents =
                                   OdSet(@, dir_name, DirRef(path))]
                           ELSE s2
                 IN Ret(save_metadata(s3), TRUE)))

----------------------------------------------------------------------------
(* The order of str on backup names.  A time stamp starts with a digit,    *)
(* which sorts below "_", which sorts below every (lower case) name; the   *)
(* names are listed in NameOrder in ascending order, none a prefix of      *)
(* another.                                                                *)

NameOrder == <<"bak", "d", "e", "f", "g", "metadata_backup">>

NameRank(x) == CHOOSE i \in 1..Len(NameOrder) : NameOrder[i] = x

TokLess(x, y) ==
    IF x = "_" THEN y # "_"
    ELSE IF y = "_" THEN FALSE
    ELSE NameRank(x) < NameRank(y)

FirstDiff(a, b) == CHOOSE i \in 1..Len(a) :
    /\ i <= Len(b) /\ a[i] # b[i]
    /\ \A j \in 1..(i - 1) : a[j] = b[j]

NameLess(a, b) ==
    LET sa == a.stem \o <<"_">>
        sb == b.stem \o <<"_">>
    IN IF sa = sb THEN a.ts < b.ts \/ (a.ts = b.ts /\ ~a.json /\ b.json)
       ELSE IF IsPrefix(sa, sb) THEN TRUE
       ELSE IF IsPrefix(sb, sa) THEN FALSE
       ELSE TokLess(sa[FirstDiff(sa, sb)], sb[FirstDiff(sa, sb)])

\* the first name of sorted(S)
Oldest(S) == CHOOSE n \in S : \A m \in S \ {n} : NameLess(n, m)

\* the last name of sorted(S)
Newest(S) == CHOOSE n \in S : \A m \in S \ {n} : NameLess(m, n)

----------------------------------------------------------------------------
(* Read cache *)

None == [none |-> TRUE, c |-> Str(<<>>)]

Some(c) == [none |-> FALSE, c |-> c]

\* _check_cache_expiration
check_cache_expiration(s) ==
    LET expired == {k \in OdKeys(s.cache_timestamps) :
                      now - OdGet(s.cache_timestamps, k) > s.cache_ttl}
    IN [s EXCEPT !.read_cache = SelectSeq(@, LAMBDA e : e.k \notin expired),
                 !.cache_timestamps = SelectSeq(@, LAMBDA e : e.k \notin expired)]

\* min(self.cache_timestamps, key=self.cache_timestamps.get): the first of
\* the smallest, in insertion order
OldestKey(ts) ==
    ts[CHOOSE i \in 1..Len(ts) :
         /\ \A j \in 1..Len(ts) : ts[i].v <= ts[j].v
         /\ \A j \in 1..(i - 1) : ts[j].v > ts[i].v].k

\* _add_to_cache
add_to_cache(s, path, content) ==
    LET s1 == IF Len(s.read_cache) >= s.cache_max_size /\ s.cache_timestamps # <<>>
              THEN [s EXCEPT
                      !.read_cache = OdDel(@, OldestKey(s.cache_timestamps)),
                      !.cache_timestamps = OdDel(@, OldestKey(s.cache_timestamps))]
              ELSE s
    IN [s1 EXCEPT !.read_cache = OdSet(@, path, content),
                  !.cache_timestamps = OdSet(@, path, now)]

\* _invalidate_cache(path)
invalidate_cache(s, rawpath) ==
    [s EXCEPT !.read_cache = OdDel(@, NormalizePath(rawpath))]

\* configure_cache
configure_cache(s, max_size, ttl) ==
    [s EXCEPT !.cache_max_size = max_size,
              !.cache_ttl = ttl,
              !.cache_timestamps = <<>>,
              !.read_cache = IF Len(@) > max_size
                             THEN SubSeq(@, Len(@) - max_size + 1, Len(@))
                             ELSE @]

----------------------------------------------------------------------------
(* Per-file recovery and the file operations *)

\* shutil.copy2(src, dst): into dst when dst is a directory (the copy is
\* then kept under the one name "bak")
Copy2(s, content, pp) ==
    IF pp \in s.phys_dirs
    THEN [s EXCEPT !.phys_files = Put(@, pp \o <<"/", "bak">>, content)]
    ELSE [s EXCEPT !.phys_files = Put(@, pp, content)]

\* _recover_file restoring the newest backup without comparing checksums
recover_file_unverified(s, file_id, physical_path) ==
    IF file_id \notin DOMAIN s.file_table THEN Ret(s, FALSE)
    ELSE LET backup_prefix == Flatten(RelPath(physical_path)) \o <<"_">>
             backups == {n \in DOMAIN s.backup_dir : StartsWith(n, backup_prefix)}
         IN IF backups = {} THEN Ret(s, FALSE)
            ELSE Ret(Copy2(s, s.backup_dir[Newest(backups)], physical_path), TRUE)

\* _recover_file
recover_file(s, file_id, physical_path) ==
    IF file_id \notin DOMAIN s.file_table THEN Ret(s, FALSE)
    ELSE LET backup_prefix == Flatten(RelPath(physical_path)) \o <<"_">>
             backups == {n \in DOMAIN s.backup_dir : StartsWith(n, backup_prefix)}
             valid == {n \in backups :
                         Md5(s.backup_dir[n]) = s.file_table[file_id].checksum}
         IN IF valid = {} THEN Ret(s, FALSE)
            ELSE Ret(Copy2(s, s.backup_dir[Newest(valid)], physical_path), TRUE)

\* read_file
read_file(s0, rawpath) ==
    LET path == NormalizePath(rawpath)
        parent_dir == dirname(path)
        file_name == basename(path)
        physical_path == PhysicalPath(path)
    IN With(check_cache_expiration(s0), LAMBDA s :
       IF path \in OdKeys(s.read_cache) THEN Ret(s, Some(OdGet(s.read_cache, path)))
       ELSE IF parent_dir \notin DOMAIN s.directory_structure THEN Ret(s, None)
       ELSE IF file_name \notin OdKeys(s.directory_structure[parent_dir].contents)
       THEN Ret(s, None)
       ELSE LET file_entry == OdGet(s.directory_structure[parent_dir].contents, file_name)
                file_id == file_entry.file_id
            IN IF file_entry.type # "file" THEN Ret(s, None)
               ELSE IF file_id \notin DOMAIN s.file_table THEN Ret(s, None) \* KeyError
               ELSE LET current_checksum == calculate_checksum(s.phys_files, physical_path)
                        stored_checksum == s.file_table[file_id].checksum
                    IN With(IF current_checksum # stored_checksum
                            THEN recover_file(s, file_id, physical_path).st
                            ELSE s, LAMBDA s1 :
                       IF physical_path \notin DOMAIN s1.phys_files THEN Ret(s1, None)
                       ELSE With(ReadText(s1.phys_files[physical_path]), LAMBDA content :
                            Ret(add_to_cache(s1, path, content), Some(content)))))

\* write_file
write_file(s0, rawpath, content) ==
    LET path == NormalizePath(rawpath)
        parent_dir == dirname(path)
        file_name == basename(path)
        physical_path == PhysicalPath(path)
    IN With(invalidate_cache(s0, path), LAMBDA sA :
       With(IF parent_dir \notin DOMAIN sA.directory_structure
            THEN create_directory(sA, parent_dir).st ELSE sA, LAMBDA s :
       IF parent_dir \notin DOMAIN s.directory_structure THEN Ret(s, FALSE) \* KeyError
       ELSE IF file_name \notin OdKeys(s.directory_structure[parent_dir].contents)
       THEN create_file(s, path, content)
       ELSE LET file_entry == OdGet(s.directory_structure[parent_dir].contents, file_name)
                file_id == file_entry.file_id
            IN IF file_entry.type # "file" THEN Ret(s, FALSE)          \* KeyError
               ELSE IF file_id \notin DOMAIN s.file_table THEN Ret(s, FALSE) \* KeyError
               ELSE With(free_blocks_op(s, s.file_table[file_id].blocks), LAMBDA s1 :
                    With(backup_file(s1, physical_path), LAMBDA s2 :
                    IF OpenWriteRaises(s2, physical_path) THEN Ret(s2, FALSE)
                    ELSE With([s2 EXCEPT !.phys_files = Put(@, physical_path, content)],
                              LAMBDA s3 :
                         With(allocate_blocks(s3, BlocksNeeded(ByteLen(content))), LAMBDA a :
                         LET file_size == ByteLen(content)
                             s4 == [a.st EXCEPT !.file_table[file_id] =
                                     [@ EXCEPT !.size = file_size,
                                               !.blocks = a.ret,
                                               !.checksum = calculate_checksum(s3.phys_files, physical_path)]]
                         IN Ret(save_metadata(add_to_cache(s4, path, content)), TRUE)))))))

\* delete_file
delete_file(s, rawpath) ==
    LET path == NormalizePath(rawpath)
        parent_dir == dirname(path)
        file_name == basename(path)
        physical_path == PhysicalPath(path)
    IN IF parent_dir \notin DOMAIN s.directory_structure THEN Ret(s, FALSE)
       ELSE IF file_name \notin OdKeys(s.directory_structure[parent_dir].contents)
       THEN Ret(s, FALSE)
       ELSE LET file_entry == OdGet(s.directory_structure[parent_dir].contents, file_name)
                file_id == file_entry.file_id
            IN IF file_entry.type # "file" THEN Ret(s, FALSE)
               ELSE With(backup_file(s, physical_path), LAMBDA s1 :
                    IF file_id \notin DOMAIN s1.file_table THEN Ret(s1, FALSE) \* KeyError
                    ELSE With([free_blocks_op(s1, s1.file_table[file_id].blocks) EXCEPT
                                 !.file_table = Del(@, file_id),
                                 !.directory_structure[parent_dir].contents =
                                     OdDel(@, file_name)], LAMBDA s3 :
                         IF physical_path \in s3.phys_dirs
                         THEN Ret(s3, FALSE)      \* os.remove raises
                         ELSE Ret(save_metadata(
                                  [s3 EXCEPT !.phys_files = Del(@, physical_path)]),
                                  TRUE)))

----------------------------------------------------------------------------
(* Directories, defragmentation, the analyzer *)

\* delete_directory
RECURSIVE delete_directory(_, _, _)
\* a directory entry taken for empty whatever it holds
HasContents_never(dir_entry) == FALSE

\* the truth value of dir_entry['contents']
HasContents(dir_entry) == dir_entry.contents # <<>>

RECURSIVE DeleteContents(_, _, _)
\* the loop over list(dir_entry['contents'].items())
DeleteContents(s, path, items) ==
    IF items = <<>> THEN s
    ELSE LET name == items[1].k
             entry == items[1].v
             s1 == IF entry.type = "file"
                   THEN delete_file(s, PathJoin(path, name)).st
                   ELSE delete_directory(s, entry.path, TRUE).st
         IN DeleteContents(s1, path, Tail(items))

\* rmdir / rmtree of the physical directory; raises when it is a regular
\* file and recursive is set
RemovePhysicalDir(s, pp, recursive) ==
    LET below == {q \in DOMAIN s.phys_files \cup s.phys_dirs :
                    IsPrefix(pp \o <<"/">>, q)}
        backups == IF pp = BackupDirRel THEN DOMAIN s.backup_dir ELSE {}
    IN IF pp \notin s.phys_dirs THEN s
       ELSE IF below = {} /\ backups = {} THEN [s EXCEPT !.phys_dirs = @ \ {pp}]
       ELSE IF recursive
       THEN [s EXCEPT !.phys_dirs = @ \ ({pp} \cup below),
                      !.phys_files = [q \in (DOMAIN @) \ below |-> @[q]],
                      !.backup_dir = IF pp = BackupDirRel THEN EmptyMap ELSE @]
       ELSE s

delete_directory(s, rawpath, recursive) ==
    LET path == NormalizePath(rawpath)
        parent_dir == dirname(path)
        dir_name == basename(path)
        physical_path == RStripSlash(PhysicalPath(path))
    IN IF path = <<"/">> THEN Ret(s, FALSE)
       ELSE IF path \notin DOMAIN s.directory_structure THEN Ret(s, FALSE)
       ELSE IF HasContents(s.directory_structure[path]) /\ ~recursive
       THEN Ret(s, FALSE)
       ELSE With(IF recursive
                 THEN DeleteContents(s, path, s.directory_structure[path].contents)
                 ELSE s, LAMBDA s1 :
            IF parent_dir \notin DOMAIN s1.directory_structure
            THEN Ret(s1, FALSE)                                     \* KeyError
            ELSE With([s1 EXCEPT !.directory_structure[parent_dir].contents =
                          OdDel(@, dir_name)], LAMBDA s2 :
                 IF path \notin DOMAIN s2.directory_structure
                 THEN Ret(s2, FALSE)                                \* KeyError
                 ELSE With([s2 EXCEPT !.directory_structure = Del(@, path)], LAMBDA s3 :
                      IF physical_path \in DOMAIN s3.phys_files /\ recursive
                      THEN Ret(s3, FALSE)      \* rmtree of a regular file raises
                      ELSE Ret(save_metadata(
                               RemovePhysicalDir(s3, physical_path, recursive)),
                               TRUE))))

\* the order of str on paths: "/" sorts below every name
PathTokLess(x, y) ==
    IF x = "/" THEN y # "/"
    ELSE IF y = "/" THEN FALSE
    ELSE NameRank(x) < NameRank(y)

PathLess(a, b) ==
    IF a = b THEN FALSE
    ELSE IF IsPrefix(a, b) THEN TRUE
    ELSE IF IsPrefix(b, a) THEN FALSE
    ELSE PathTokLess(a[FirstDiff(a, b)], b[FirstDiff(a, b)])

\* the file ids by descending path
RECURSIVE SortedFiles_reverse(_, _)
SortedFiles_reverse(ft, ids) ==
    IF ids = {} THEN <<>>
    ELSE LET m == CHOOSE i \in ids :
                    \A j \in ids \ {i} : ~PathLess(ft[i].path, ft[j].path)
         IN <<m>> \o SortedFiles_reverse(ft, ids \ {m})

\* sorted(self.file_table.items(), key=lambda x: x[1]['path']), the file ids
RECURSIVE SortedFiles(_, _)
SortedFiles(ft, ids) ==
    IF ids = {} THEN <<>>
    ELSE LET m == CHOOSE i \in ids :
                    \A j \in ids \ {i} : ~PathLess(ft[j].path, ft[i].path)
         IN <<m>> \o SortedFiles(ft, ids \ {m})

\* the re-allocation loop of defragment
RECURSIVE Reallocate(_, _)
Reallocate(s, ids) ==
    IF ids = <<>> THEN s
    ELSE With(allocate_blocks(s, BlocksNeeded(s.file_table[ids[1]].size)), LAMBDA a :
         Reallocate([a.st EXCEPT !.file_table[ids[1]].blocks = a.ret], Tail(ids)))

\* defragment resetting the pool to one block too many
defragment_extra(s) ==
    LET total_blocks == SumLens(s.file_table, DOMAIN s.file_table) + ListLen(s.free_blocks)
        s1 == [s EXCEPT !.free_blocks = RangeList(1, total_blocks + 1)]
        sorted_files == SortedFiles(s.file_table, DOMAIN s.file_table)
    IN Ret(save_metadata(Reallocate(s1, sorted_files)), TRUE)

\* defragment
defragment(s) ==
    LET total_blocks == SumLens(s.file_table, DOMAIN s.file_table) + ListLen(s.free_blocks)
        s1 == [s EXCEPT !.free_blocks = RangeList(1, total_blocks)]
        sorted_files == SortedFiles(s.file_table, DOMAIN s.file_table)
    IN Ret(save_metadata(Reallocate(s1, sorted_files)), TRUE)

\* the benchmark loop of analyze_performance over the files random.choice gave
RECURSIVE Benchmark(_, _)
Benchmark(s, choices) ==
    IF choices = <<>> THEN s
    ELSE LET file_id == choices[1]
             path == s.file_table[file_id].path
             dummy_content == Xs(s.file_table[file_id].size)
             w == write_file(s, path, dummy_content)
             r == read_file(w.st, path)
         IN Benchmark(r.st, Tail(choices))

Min2(a, b) == IF a < b THEN a ELSE b

\* analyze_performance; choices are the min(5, len) results of random.choice
analyze_performance(s, choices) ==
    LET used_blocks == SumLens(s.file_table, DOMAIN s.file_table)
        free == ListLen(s.free_blocks)
    IN Ret(Benchmark(s, choices),
           [total_files |-> Cardinality(DOMAIN s.file_table),
            total_directories |-> Cardinality(DOMAIN s.directory_structure),
            used_blocks |-> used_blocks, free_blocks |-> free,
            total_blocks |-> used_blocks + free])

----------------------------------------------------------------------------
(* Metadata load and recovery, the fault injector *)

\* the entries os.listdir(rel) yields, in the order the file system gives
\* them: order lists all names; .backups is skipped and the metadata file is
\* kept apart from phys_files
Child(rel, n) == IF rel = <<>> THEN <<n>> ELSE rel \o <<"/", n>>

ListDir(s, rel, order) ==
    SelectSeq(order, LAMBDA n :
        /\ <<n>> # BackupDirRel
        /\ Child(rel, n) \in (DOMAIN s.phys_files) \cup s.phys_dirs)

\* _scan_directory
RECURSIVE scan_directory(_, _, _, _)
RECURSIVE ScanItems(_, _, _, _, _)
ScanItems(s, items, rel, virtual_path, order) ==
    IF items = <<>> THEN s
    ELSE LET item == items[1]
             item_physical_path == Child(rel, item)
             item_virtual_path == PathJoin(virtual_path, <<item>>)
             s1 == IF item_physical_path \in s.phys_dirs
                   THEN scan_directory(
                          [s EXCEPT !.directory_structure =
                              Put(@, item_virtual_path, DirEntry(<<>>))],
                          item_physical_path, item_virtual_path, order)
                   ELSE LET file_size == ByteLen(s.phys_files[item_physical_path])
                            file_id == FileId(item_virtual_path)
                            a == allocate_blocks(s, BlocksNeeded(file_size))
                            parent_dir == dirname(item_virtual_path)
                            ds1 == IF parent_dir \notin DOMAIN a.st.directory_structure
                                   THEN Put(a.st.directory_structure, parent_dir, DirEntry(<<>>))
                                   ELSE a.st.directory_structure
                        IN [a.st EXCEPT
                              !.file_table = Put(@, file_id,
                                  [path |-> item_virtual_path, size |-> file_size,
                                   blocks |-> a.ret,
                                   checksum |-> calculate_checksum(s.phys_files, item_physical_path)]),
                              !.directory_structure =
                                  [ds1 EXCEPT ![parent_dir].contents =
                                      OdSet(@, <<item>>, FileRef(file_id))]]
         IN ScanItems(s1, Tail(items), rel, virtual_path, order)

scan_directory(s, rel, virtual_path, order) ==
    ScanItems(s, ListDir(s, rel, order), rel, virtual_path, order)

\* the fields _load_metadata and _recover_metadata take from a parsed document
Adopt(s, data) ==
    [s EXCEPT !.free_blocks = data.free_blocks,
              !.file_table = data.file_table,
              !.directory_structure = data.directory_structure]

MetaBackups(s) ==
    {n \in DOMAIN s.backup_dir : StartsWith(n, <<"metadata_backup", "_">>)}

\* _recover_metadata; ret tells which way it went (os.listdir raises when
\* the backup directory is missing)
recover_metadata(s, order) ==
    IF BackupDirRel \notin s.phys_dirs THEN Ret(s, "raised")
    ELSE IF MetaBackups(s) # {} /\ Parsable(s.backup_dir[Newest(MetaBackups(s))])
    THEN Ret(Adopt(s, s.backup_dir[Newest(MetaBackups(s))]), "backup")
    ELSE Ret(save_metadata(
                scan_directory(initialize_file_system(s), <<>>, <<"/">>, order)),
             "rescan")

\* __init__ of a new FileSystemManager on the same root_dir, with its
\* _load_metadata
load_metadata(s, order) ==
    LET s0 == [s EXCEPT !.free_blocks = <<>>, !.file_table = EmptyMap,
                        !.directory_structure = EmptyMap,
                        !.phys_dirs = @ \cup {BackupDirRel},
                        !.read_cache = <<>>, !.cache_timestamps = <<>>,
                        !.cache_max_size = DefaultCacheMaxSize,
                        !.cache_ttl = DefaultCacheTtl]
    IN IF s.metadata_file = Absent THEN Ret(initialize_file_system(s0), "init")
       ELSE IF Parsable(s.metadata_file) THEN Ret(Adopt(s0, s.metadata_file), "loaded")
       ELSE recover_metadata(s0, order)

\* the loop of simulate_disk_crash("files") over random.sample's result;
\* an open that raises ends it
RECURSIVE CorruptFiles(_, _)
CorruptFiles(s, sample) ==
    IF sample = <<>> THEN s
    ELSE LET physical_path == PhysicalPath(s.file_table[sample[1]].path)
         IN IF OpenWriteRaises(s, physical_path) THEN s
            ELSE CorruptFiles(
                   [s EXCEPT !.phys_files = Put(@, physical_path, CorruptMarker)],
                   Tail(sample))

\* simulate_disk_crash
simulate_disk_crash(s, corruption_type, sample) ==
    IF corruption_type = "metadata" THEN [s EXCEPT !.metadata_file = InvalidJson]
    ELSE IF corruption_type = "files" THEN CorruptFiles(s, sample)
    ELSE s

\* list_directory: the names shown with their type, None for a missing path
list_directory(s, rawpath) ==
    LET p1 == NormalizePath(rawpath)
        path == IF p1 # <<"/">> /\ p1[Len(p1)] = "/"
                THEN SubSeq(p1, 1, Len(p1) - 1) ELSE p1
    IN IF path \notin DOMAIN s.directory_structure THEN [none |-> TRUE, contents |-> <<>>]
       ELSE [none |-> FALSE,
             contents |-> [i \in 1..Len(s.directory_structure[path].contents) |->
                 [k |-> s.directory_structure[path].contents[i].k,
                  v |-> s.directory_structure[path].contents[i].v.type]]]

----------------------------------------------------------------------------
(* Bounds *)

MaxTime == 302

MaxShortTicks == 1

MaxBlocks == 2001

\* the number of calls a behaviour of each specification makes
AllocSteps == 5

MaintSteps == 4

CacheSteps == 4

TreeSteps == 4

RecoverSteps == 4

MetaSteps == 4

ConfigSteps == 5

SaveSteps == 4

DirSteps == 6

RescanSteps == 5

SlashSteps == 3

BenchSteps == 4

LinkSteps == 5

RestoreSteps == 4

\* the steps of the clock: one second, or just past the default TTL
TickSteps == {1, DefaultCacheTtl + 1}

----------------------------------------------------------------------------
(* The state machine *)

TotalBlocks(s) == SumLens(s.file_table, DOMAIN s.file_table) + ListLen(s.free_blocks)

NoStats == [total_files |-> 0, total_directories |-> 0, used_blocks |-> 0,
            free_blocks |-> 0, total_blocks |-> 0]

Call(op, path, content) ==
    [op |-> op, path |-> path, content |-> content, ok |-> TRUE, out |-> None,
     how |-> "", stats |-> NoStats]

RECURSIVE Perms(_)
Perms(S) ==
    IF S = {} THEN {<<>>}
    ELSE UNION {{<<x>> \o q : q \in Perms(S \ {x})} : x \in S}

\* the names on the disk
PhysNames ==
    UNION {{q[i] : i \in {j \in 1..Len(q) : q[j] # "/"}} :
             q \in ((DOMAIN phys_files) \cup phys_dirs) \ {BackupDirRel}}

\* the paths of the file table
FilePaths(ft) == {ft[i].path : i \in DOMAIN ft}

\* move to state s, having made call c; pr is the new history
Apply(s, c, pr) ==
    /\ TotalBlocks(s) <= MaxBlocks
    /\ free_blocks' = s.free_blocks
    /\ file_table' = s.file_table
    /\ directory_structure' = s.directory_structure
    /\ read_cache' = s.read_cache
    /\ cache_timestamps' = s.cache_timestamps
    /\ cache_max_size' = s.cache_max_size
    /\ cache_ttl' = s.cache_ttl
    /\ metadata_file' = s.metadata_file
    /\ backup_dir' = s.backup_dir
    /\ phys_files' = s.phys_files
    /\ phys_dirs' = s.phys_dirs
    /\ last' = c
    /\ pristine' = [q \in (DOMAIN pr) \cap FilePaths(s.file_table) |-> pr[q]]
    /\ now' = now
    /\ steps' = steps + 1
    \* _add_to_cache stamps what it inserts with the time of the call
    /\ inserted_at' = [k \in OdKeys(s.read_cache) |->
            IF /\ k \in OdKeys(s.cache_timestamps)
               /\ OdGet(s.cache_timestamps, k) = now
            THEN now
            ELSE IF k \in DOMAIN inserted_at THEN inserted_at[k] ELSE now]

Init ==
    /\ now = 0
    /\ free_blocks = RangeList(1, InitialFreeBlocks)
    /\ file_table = EmptyMap
    /\ directory_structure = (<<"/">> :> DirEntry(<<>>))
    /\ read_cache = <<>>
    /\ cache_timestamps = <<>>
    /\ cache_max_size = DefaultCacheMaxSize
    /\ cache_ttl = DefaultCacheTtl
    /\ metadata_file = [kind |-> "json", block_size |-> block_size,
                        free_blocks |-> RangeList(1, InitialFreeBlocks),
                        file_table |-> EmptyMap,
                        directory_structure |-> (<<"/">> :> DirEntry(<<>>)),
                        last_updated |-> 0]
    /\ backup_dir = EmptyMap
    /\ phys_files = EmptyMap
    /\ phys_dirs = {BackupDirRel}
    /\ last = Call("init", <<>>, Str(<<>>))
    /\ pristine = EmptyMap
    /\ steps = 0
    /\ inserted_at = EmptyMap

CreateFile(p, c) ==
    \E r \in {create_file(Cur, p, c)} :
       Apply(r.st, [Call("create_file", p, c) EXCEPT !.ok = r.ret],
             IF r.ret THEN Put(pristine, NormalizePath(p), c) ELSE pristine)

ReadFile(p) ==
    \E r \in {read_file(Cur, p)} :
       Apply(r.st, [Call("read_file", p, Str(<<>>)) EXCEPT
                      !.ok = ~r.ret.none, !.out = r.ret,
                      !.how = IF r.st.phys_files # phys_files
                              THEN "restored" ELSE ""],
             Del(pristine, NormalizePath(p)))

WriteFile(p, c) ==
    \E r \in {write_file(Cur, p, c)} :
       Apply(r.st, [Call("write_file", p, c) EXCEPT !.ok = r.ret],
             Del(pristine, NormalizePath(p)))

DeleteFile(p) ==
    \E r \in {delete_file(Cur, p)} :
       Apply(r.st, [Call("delete_file", p, Str(<<>>)) EXCEPT !.ok = r.ret],
             Del(pristine, NormalizePath(p)))

CreateDirectory(p) ==
    \E r \in {create_directory(Cur, p)} :
       Apply(r.st, [Call("create_directory", p, Str(<<>>)) EXCEPT !.ok = r.ret],
             pristine)

DeleteDirectory(p, recursive) ==
    \E r \in {delete_directory(Cur, p, recursive)} :
       Apply(r.st, [Call("delete_directory", p, Str(<<>>)) EXCEPT
                      !.ok = r.ret,
                      !.how = IF recursive THEN "recursive" ELSE "plain"],
             pristine)

Defragment ==
    \E r \in {defragment(Cur)} :
       Apply(r.st, [Call("defragment", <<>>, Str(<<>>)) EXCEPT !.ok = r.ret],
             pristine)

AnalyzePerformance ==
    \E choices \in [1..Min2(5, Cardinality(DOMAIN file_table)) -> DOMAIN file_table] :
        \E r \in {analyze_performance(Cur, choices)} :
           Apply(r.st, [Call("analyze_performance", <<>>, Str(<<>>)) EXCEPT
                          !.stats = r.ret],
                 [q \in (DOMAIN pristine) \
                        {file_table[choices[i]].path : i \in DOMAIN choices}
                    |-> pristine[q]])

CorruptMetadata ==
    Apply(simulate_disk_crash(Cur, "metadata", <<>>),
          [Call("simulate_disk_crash", <<>>, Str(<<>>)) EXCEPT !.how = "metadata"],
          pristine)

CorruptSomeFiles ==
    \E sample \in UNION {Perms(S) : S \in
            {T \in SUBSET (DOMAIN file_table) :
               Cardinality(T) = Min2(3, Cardinality(DOMAIN file_table))}} :
        Apply(simulate_disk_crash(Cur, "files", sample),
              [Call("simulate_disk_crash", <<>>, Str(<<>>)) EXCEPT !.how = "files"],
              pristine)

\* a new FileSystemManager is constructed on the same root directory
Load ==
    \E order \in Perms(PhysNames) :
        /\ ~MakedirsRaises(Cur, BackupDirRel)
        /\ \E r \in {load_metadata(Cur, order)} :
           Apply(r.st, [Call("load", <<>>, Str(<<>>)) EXCEPT !.how = r.ret],
                 pristine)

\* the raw recovery trigger: _recover_metadata on the running instance
RecoverMetadata ==
    \E order \in Perms(PhysNames) :
        \E r \in {recover_metadata(Cur, order)} :
           Apply(r.st, [Call("recover_metadata", <<>>, Str(<<>>)) EXCEPT !.how = r.ret],
                 pristine)

ConfigureCache(max_size, ttl) ==
    Apply(configure_cache(Cur, max_size, ttl),
          Call("configure_cache", <<>>, Str(<<>>)), pristine)

Tick ==
    \E d \in TickSteps :
        /\ now + d <= MaxTime
        /\ d = 1 => (now % (DefaultCacheTtl + 1)) < MaxShortTicks
        /\ now' = now + d
        /\ UNCHANGED <<free_blocks, file_table, directory_structure, read_cache,
                       cache_timestamps, cache_max_size, cache_ttl, metadata_file,
                       backup_dir, phys_files, phys_dirs, last, pristine, steps,
                       inserted_at>>

----------------------------------------------------------------------------
(* Specifications *)

\* "/f", "/g"
PF == <<"/", "f">>

PG == <<"/", "g">>

PD == <<"/", "d">>

PDF == <<"/", "d", "/", "f">>

Empty == Str(<<>>)

OneByte == Str(<<"a">>)

\* 'x' * 4097: two blocks
TwoBlocks == Xs(block_size + 1)

\* 'x' * (4096 * 1000): as many blocks as a fresh pool holds
WholePool == Xs(block_size * InitialFreeBlocks)

\* "a\rb"
WithCR == Str(<<"a", "\r", "b">>)

\* 'x' * 4096: exactly one block
OneBlock == Xs(block_size)

(* Maintenance: the operations that assign block lists *)
MaintPaths == {PF, PG}

MaintContents == {Empty, OneBlock, TwoBlocks}

NextMaint ==
    \/ \E p \in MaintPaths, c \in MaintContents : steps < MaintSteps /\ CreateFile(p, c)
    \/ \E p \in MaintPaths, c \in MaintContents : steps < MaintSteps /\ WriteFile(p, c)
    \/ steps < MaintSteps /\ Defragment
    \/ steps < MaintSteps /\ AnalyzePerformance
    \/ steps < MaintSteps /\ CorruptSomeFiles
    \/ steps < MaintSteps /\ CorruptMetadata
    \/ steps < MaintSteps /\ Load

SpecMaint == Init /\ [][NextMaint]_vars

(* Cache: file operations and the clock *)
CachePaths == {PF, PDF}

CacheContents == {OneByte, WithCR}

NextCache ==
    \/ \E p \in CachePaths, c \in CacheContents : steps < CacheSteps /\ CreateFile(p, c)
    \/ \E p \in CachePaths, c \in CacheContents : steps < CacheSteps /\ WriteFile(p, c)
    \/ \E p \in CachePaths : steps < CacheSteps /\ ReadFile(p)
    \/ \E p \in CachePaths : steps < CacheSteps /\ DeleteFile(p)
    \/ Tick

SpecCache == Init /\ [][NextCache]_vars

(* Tree: files and directories, with metadata recovery *)
TreeDirs == {PD}

TreeFiles == {PF, PD, PDF}

TreeContents == {OneByte, TwoBlocks}

NextTree ==
    \/ \E p \in TreeDirs : steps < TreeSteps /\ CreateDirectory(p)
    \/ \E p \in TreeDirs, r \in BOOLEAN : steps < TreeSteps /\ DeleteDirectory(p, r)
    \/ \E p \in TreeFiles, c \in TreeContents : steps < TreeSteps /\ CreateFile(p, c)
    \/ \E p \in TreeFiles, c \in TreeContents : steps < TreeSteps /\ WriteFile(p, c)
    \/ \E p \in TreeFiles : steps < TreeSteps /\ DeleteFile(p)
    \/ steps < TreeSteps /\ CorruptMetadata
    \/ steps < TreeSteps /\ Load

SpecTree == Init /\ [][NextTree]_vars

(* Recovery of file contents *)
RecoverPaths == {PF, PG}

\* "b"
OtherByte == Str(<<"b">>)

RecoverContents == {OneByte, OtherByte}

NextRecover ==
    \/ \E p \in RecoverPaths, c \in RecoverContents : steps < RecoverSteps /\ CreateFile(p, c)
    \/ \E p \in RecoverPaths, c \in RecoverContents : steps < RecoverSteps /\ WriteFile(p, c)
    \/ \E p \in RecoverPaths : steps < RecoverSteps /\ ReadFile(p)
    \/ steps < RecoverSteps /\ CorruptSomeFiles
    \/ Tick

SpecRecover == Init /\ [][NextRecover]_vars

\* the same, every file created with the one content
NextRestore ==
    \/ \E p \in RecoverPaths : steps < RestoreSteps /\ CreateFile(p, OneByte)
    \/ \E p \in RecoverPaths, c \in RecoverContents : steps < RestoreSteps /\ WriteFile(p, c)
    \/ \E p \in RecoverPaths : steps < RestoreSteps /\ ReadFile(p)
    \/ steps < RestoreSteps /\ CorruptSomeFiles
    \/ Tick

SpecRestore == Init /\ [][NextRestore]_vars


(* Recovery of the metadata *)
PE == <<"/", "e">>

MetaDirs == {PD, PE}

NextMeta ==
    \/ \E p \in MetaDirs : steps < MetaSteps /\ CreateDirectory(p)
    \/ \E c \in {OneByte} : steps < MetaSteps /\ CreateFile(PDF, c)
    \/ steps < MetaSteps /\ CorruptMetadata
    \/ steps < MetaSteps /\ Load
    \/ steps < MetaSteps /\ RecoverMetadata
    \/ Tick

SpecMeta == Init /\ [][NextMeta]_vars

(* Cache configuration: file operations, configure_cache and the clock *)
ConfigPaths == {PF, PG}

ConfigSizes == {1, 2}

ConfigTtls == {1, DefaultCacheTtl}

NextConfig ==
    \/ \E p \in ConfigPaths : steps < ConfigSteps /\ CreateFile(p, OneByte)
    \/ \E p \in ConfigPaths : steps < ConfigSteps /\ WriteFile(p, OtherByte)
    \/ \E p \in ConfigPaths : steps < ConfigSteps /\ ReadFile(p)
    \/ \E p \in ConfigPaths : steps < ConfigSteps /\ DeleteFile(p)
    \/ \E m \in ConfigSizes, t \in ConfigTtls :
          steps < ConfigSteps /\ ConfigureCache(m, t)
    \/ Tick

SpecConfig == Init /\ [][NextConfig]_vars

(* Saving: the six operations that save, on paths that include the backup *)
(* directory's own                                                        *)
PB == <<"/", ".backups">>

SaveDirs == {PD, PB}

SaveFiles == {PF, PDF}

NextSave ==
    \/ \E p \in SaveDirs : steps < SaveSteps /\ CreateDirectory(p)
    \/ \E p \in SaveDirs, r \in BOOLEAN : steps < SaveSteps /\ DeleteDirectory(p, r)
    \/ \E p \in SaveFiles : steps < SaveSteps /\ CreateFile(p, OneByte)
    \/ \E p \in SaveFiles : steps < SaveSteps /\ WriteFile(p, OtherByte)
    \/ \E p \in SaveFiles : steps < SaveSteps /\ DeleteFile(p)
    \/ steps < SaveSteps /\ Defragment
    \/ Tick

SpecSave == Init /\ [][NextSave]_vars

(* Directories: "/d" and "/d/f" as directories and "/d/f" as a file, with *)
(* corruption of the metadata and restarts                                *)
DirDirs == {PD, PDF}

\* "/" and "/d" as arguments of delete_directory
Root == <<"/">>

DirRemoved == {Root, PD}

NextDirs ==
    \/ \E p \in DirDirs : steps < DirSteps /\ CreateDirectory(p)
    \/ \E p \in DirRemoved, r \in BOOLEAN : steps < DirSteps /\ DeleteDirectory(p, r)
    \/ steps < DirSteps /\ CreateFile(PDF, OneByte)
    \/ steps < DirSteps /\ CorruptMetadata
    \/ steps < DirSteps /\ Load

SpecDirs == Init /\ [][NextDirs]_vars

(* Rescan: files that fill the pool, a directory, corruption of the *)
(* metadata and restarts                                            *)
RescanPaths == {PF, PG, PDF}

RescanContents == {OneByte, WholePool}

NextRescan ==
    \/ \E p \in RescanPaths, c \in RescanContents :
          steps < RescanSteps /\ CreateFile(p, c)
    \/ steps < RescanSteps /\ CreateDirectory(PD)
    \/ steps < RescanSteps /\ CorruptMetadata
    \/ steps < RescanSteps /\ Load
    \/ steps < RescanSteps /\ Defragment

SpecRescan == Init /\ [][NextRescan]_vars

(* Trailing slashes: every path operation on "/d" and "/f" with and *)
(* without a slash at the end                                       *)
\* "/d/", "/f/"
PDS == <<"/", "d", "/">>

PFS == <<"/", "f", "/">>

SlashDirs == {PD, PDS}

SlashFiles == {PF, PFS}

NextSlash ==
    \/ \E p \in SlashDirs : steps < SlashSteps /\ CreateDirectory(p)
    \/ \E p \in SlashDirs, r \in BOOLEAN : steps < SlashSteps /\ DeleteDirectory(p, r)
    \/ \E p \in SlashFiles : steps < SlashSteps /\ CreateFile(p, OneByte)
    \/ \E p \in SlashFiles : steps < SlashSteps /\ WriteFile(p, OtherByte)
    \/ \E p \in SlashFiles : steps < SlashSteps /\ ReadFile(p)
    \/ \E p \in SlashFiles : steps < SlashSteps /\ DeleteFile(p)

SpecSlash == Init /\ [][NextSlash]_vars

(* Benchmark: analyze_performance among creations and removals *)
BenchFiles == {PF, PDF}

BenchContents == {OneByte, TwoBlocks}

NextBench ==
    \/ \E p \in SlashDirs : steps < BenchSteps /\ CreateDirectory(p)
    \/ \E p \in SlashDirs, r \in BOOLEAN : steps < BenchSteps /\ DeleteDirectory(p, r)
    \/ \E p \in BenchFiles, c \in BenchContents : steps < BenchSteps /\ CreateFile(p, c)
    \/ steps < BenchSteps /\ AnalyzePerformance

SpecBench == Init /\ [][NextBench]_vars

\* a name that is a file, then deleted, then a directory, across reloads
LinkPaths == {PF, PD}

NextLink ==
    \/ \E p \in LinkPaths : steps < LinkSteps /\ CreateFile(p, OneByte)
    \/ \E p \in LinkPaths : steps < LinkSteps /\ DeleteFile(p)
    \/ steps < LinkSteps /\ CreateDirectory(PD)
    \/ steps < LinkSteps /\ CorruptMetadata
    \/ steps < LinkSteps /\ Load

SpecLink == Init /\ [][NextLink]_vars

(* Allocation: create, write and delete only *)
AllocPaths == {PF, PG}

AllocContents == {OneByte, TwoBlocks, WholePool}

NextAlloc ==
    \/ \E p \in AllocPaths, c \in AllocContents : steps < AllocSteps /\ CreateFile(p, c)
    \/ \E p \in AllocPaths, c \in AllocContents : steps < AllocSteps /\ WriteFile(p, c)
    \/ \E p \in AllocPaths : steps < AllocSteps /\ DeleteFile(p)

SpecAlloc == Init /\ [][NextAlloc]_vars

----------------------------------------------------------------------------
(* Block accounting *)

\* the block lists of the live FileRecords
AllocatedIds == UNION {Ids(file_table[i].blocks) : i \in DOMAIN file_table}

AllRuns ==
    {free_blocks[k] : k \in 1..Len(free_blocks)} \cup
    UNION {{file_table[i].blocks[k] : k \in 1..Len(file_table[i].blocks)} :
             i \in DOMAIN file_table}

\* the largest identifier present
MaxId == Max({r.hi : r \in AllRuns})

\* C1: no block identifier is in the block lists of two live FileRecords,
\* none is twice in one list, none is both in a block list and in free_blocks
C1_NoSharedBlocks ==
    /\ \A i \in DOMAIN file_table :
          /\ Cardinality(Ids(file_table[i].blocks)) = ListLen(file_table[i].blocks)
          /\ Ids(file_table[i].blocks) \cap Ids(free_blocks) = {}
    /\ \A i, j \in DOMAIN file_table :
          i # j => Ids(file_table[i].blocks) \cap Ids(file_table[j].blocks) = {}

\* C2: the free identifiers together with the allocated ones are exactly
\* 1..M, M the largest identifier present
C2_NoGaps == Ids(free_blocks) \cup AllocatedIds = 1..MaxId

\* C2 witness: the pool was drained and new identifiers were minted
C2_Minted ==
    /\ last.op \in {"create_file", "write_file", "delete_file"}
    /\ MaxId > InitialFreeBlocks
    /\ \E i \in DOMAIN file_table : ListMax(file_table[i].blocks) > InitialFreeBlocks

Ceil(a, b) == IF a % b = 0 THEN a \div b ELSE a \div b + 1

\* C3: every FileRecord has ceil(size / block_size) blocks, none when empty
C3_BlockCount ==
    \A i \in DOMAIN file_table :
        ListLen(file_table[i].blocks) = Ceil(file_table[i].size, block_size)

\* C3 witness: a rescan has rebuilt the record of a file of two blocks whose
\* size is no multiple of the block size
C3_RescannedTwoBlocks ==
    /\ last.op = "load" /\ last.how = "rescan"
    /\ \E i \in DOMAIN file_table :
          /\ file_table[i].size % block_size # 0
          /\ ListLen(file_table[i].blocks) = 2

----------------------------------------------------------------------------
(* Reads, writes and deletes *)

\* a step that makes the call op
Calls(op) == steps' = steps + 1 /\ last'.op = op

\* C4: a read_file(p) right after a successful write_file(p, c) returns c
C4_WriteThenRead ==
    [][(/\ last.op = "write_file" /\ last.ok
        /\ Calls("read_file") /\ last'.path = last.path)
       => last'.out = Some(last.content)]_vars

\* C5: a read_file(p) right after a successful delete_file(p) returns None
C5_DeleteThenRead ==
    [][(/\ last.op = "delete_file" /\ last.ok
        /\ Calls("read_file") /\ last'.path = last.path)
       => last'.out = None]_vars

\* the list the runs stand for
RECURSIVE Expand(_)
Expand(r) ==
    IF r = <<>> THEN <<>>
    ELSE [i \in 1..(r[1].hi - r[1].lo + 1) |-> r[1].lo + i - 1] \o Expand(Tail(r))

\* path resolves to a file: its parent is a directory of the tree and holds
\* a file reference under its name
ResolvesToFile(path) ==
    /\ dirname(path) \in DOMAIN directory_structure
    /\ basename(path) \in OdKeys(directory_structure[dirname(path)].contents)
    /\ OdGet(directory_structure[dirname(path)].contents, basename(path)).type = "file"

\* C6: delete_file of an existing file removes its record and its name in
\* the parent (list_directory no longer shows it) and appends its former
\* blocks to free_blocks; on any other path it fails and changes neither
\* file_table, directory_structure nor free_blocks
C6_DeleteFile ==
    [][Calls("delete_file") =>
        LET path == NormalizePath(last'.path)
            parent == dirname(path)
            name == basename(path)
        IN IF ResolvesToFile(path)
           THEN LET id == OdGet(directory_structure[parent].contents, name).file_id
                    shown == list_directory(Cur', parent).contents
                IN /\ id \in DOMAIN file_table
                   /\ file_table[id].path = path
                   /\ id \notin DOMAIN file_table'
                   /\ path \notin FilePaths(file_table')
                   /\ name \notin OdKeys(directory_structure'[parent].contents)
                   /\ \A i \in 1..Len(shown) : shown[i].k # name
                   /\ Expand(free_blocks') =
                        Expand(free_blocks) \o Expand(file_table[id].blocks)
           ELSE /\ ~last'.ok
                /\ UNCHANGED <<file_table, directory_structure, free_blocks>>]_vars

\* C6 witness: a file of two blocks inside a directory has been deleted
C6_DeletedNested ==
    /\ last.op = "delete_file" /\ last.ok /\ last.path = PDF
    /\ PD \in DOMAIN directory_structure
    /\ ListLen(free_blocks) = InitialFreeBlocks
    /\ Len(free_blocks) > 1

----------------------------------------------------------------------------
(* Recovery of file contents *)

\* the path has no entry in the read cache, or an expired one
NotCached(path) ==
    \/ path \notin OdKeys(read_cache)
    \/ /\ path \in OdKeys(cache_timestamps)
       /\ now - OdGet(cache_timestamps, path) > cache_ttl

\* .backups holds a copy of the physical file pp
HasFileBackup(pp) ==
    \E n \in DOMAIN backup_dir : n = FileBackupName(RelPath(pp), n.ts)

\* C7: read_file of a file that has a per-file backup, whose physical
\* content is corrupted and which is not served from the cache, restores
\* content whose checksum is the stored one and returns it
C7_RecoversFromBackup ==
    [][Calls("read_file") =>
        LET path == NormalizePath(last'.path)
            pp == PhysicalPath(path)
            id == OdGet(directory_structure[dirname(path)].contents,
                        basename(path)).file_id
        IN (/\ ResolvesToFile(path)
            /\ id \in DOMAIN file_table
            /\ HasFileBackup(pp)
            /\ pp \in DOMAIN phys_files
            /\ phys_files[pp] = CorruptMarker
            /\ Md5(CorruptMarker) # file_table[id].checksum
            /\ NotCached(path))
           => /\ pp \in DOMAIN phys_files'
              /\ Md5(phys_files'[pp]) = file_table[id].checksum
              /\ last'.out = Some(ReadText(phys_files'[pp]))]_vars

\* C8: read_file of a file made by create_file and not read or written
\* since, whose physical content the corruption has replaced by the marker,
\* returns the content it was created with
C8_CreatedFileRecovered ==
    [][Calls("read_file") =>
        LET path == NormalizePath(last'.path)
            pp == PhysicalPath(path)
        IN (/\ path \in DOMAIN pristine
            /\ pristine[path] # CorruptMarker
            /\ pp \in DOMAIN phys_files
            /\ phys_files[pp] = CorruptMarker)
           => last'.out = Some(pristine[path])]_vars

----------------------------------------------------------------------------
(* Recovery of the metadata *)

C10_RescanOnlyWithoutParsableBackup ==
    [][((Calls("load") \/ Calls("recover_metadata")) /\ last'.how = "rescan")
       => \A n \in MetaBackups(Cur) : ~Parsable(backup_dir[n])]_vars

----------------------------------------------------------------------------
(* The read cache *)

\* C11: read_cache never holds more than cache_max_size entries
C11_CacheBounded == Len(read_cache) <= cache_max_size

\* C12: a read_file of a path whose cache entry is older than cache_ttl does
\* not serve that entry: afterwards the path has no entry or one put there
\* by this read
C12_ExpiredNotServed ==
    [][Calls("read_file") =>
        LET path == NormalizePath(last'.path)
        IN (/\ path \in OdKeys(read_cache)
            /\ now - inserted_at[path] > cache_ttl)
           => \/ path \notin OdKeys(read_cache')
              \/ inserted_at'[path] = now]_vars

----------------------------------------------------------------------------
(* Defragmentation *)

\* the blocks of the records and of the free list, counted with repetition
BlockTotal(ft, fb) == SumLens(ft, DOMAIN ft) + ListLen(fb)

\* C13: a successful defragment keeps the records, their path, size and
\* checksum, the tree, the cache and the physical files; every record has
\* ceil(size / block_size) blocks and the number of blocks, allocated plus
\* free, is what it was
C13_DefragmentFrame ==
    [][(Calls("defragment") /\ last'.ok) =>
        /\ DOMAIN file_table' = DOMAIN file_table
        /\ \A id \in DOMAIN file_table :
              /\ file_table'[id].path = file_table[id].path
              /\ file_table'[id].size = file_table[id].size
              /\ file_table'[id].checksum = file_table[id].checksum
              /\ ListLen(file_table'[id].blocks) = Ceil(file_table[id].size, block_size)
        /\ directory_structure' = directory_structure
        /\ UNCHANGED <<read_cache, cache_timestamps, phys_files, phys_dirs>>
        /\ BlockTotal(file_table', free_blocks') = BlockTotal(file_table, free_blocks)]_vars

\* C13 witness: a defragment has moved the blocks of a file; the metadata
\* backup of its save holds the block lists as they were before
C13_Relocated ==
    /\ last.op = "defragment" /\ last.ok
    /\ \E n \in DOMAIN backup_dir :
          /\ n = MetaBackupName(now)
          /\ Parsable(backup_dir[n])
          /\ \E id \in DOMAIN file_table :
                /\ id \in DOMAIN backup_dir[n].file_table
                /\ backup_dir[n].file_table[id].blocks # file_table[id].blocks

----------------------------------------------------------------------------
(* Corruption and the cache *)

\* C14: the read_file that follows simulate_disk_crash('files') on a file
\* whose physical content the crash has replaced by the marker goes to the
\* physical file: it compares the checksums, runs the per-file recovery and
\* returns what the physical file holds after it, whatever the cache holds
C14_CorruptionDetected ==
    [][Calls("read_file") =>
        LET path == NormalizePath(last'.path)
            pp == PhysicalPath(path)
            id == OdGet(directory_structure[dirname(path)].contents,
                        basename(path)).file_id
        IN (/\ last.op = "simulate_disk_crash" /\ last.how = "files"
            /\ ResolvesToFile(path)
            /\ id \in DOMAIN file_table
            /\ pp \in DOMAIN phys_files
            /\ phys_files[pp] = CorruptMarker
            /\ Md5(CorruptMarker) # file_table[id].checksum)
           => /\ pp \in DOMAIN phys_files'
              /\ last'.out = Some(ReadText(phys_files'[pp]))]_vars

----------------------------------------------------------------------------
(* Saving *)

\* the operations that save before they return success
SavingOps == {"create_file", "write_file", "delete_file", "create_directory",
              "delete_directory", "defragment"}

\* C15: when one of the six saving operations returns success, the metadata
\* file is a snapshot whose block_size, free_blocks, file_table and
\* directory_structure are those of the memory at the return
C15_SavedOnSuccess ==
    [][(steps' = steps + 1 /\ last'.op \in SavingOps /\ last'.ok) =>
        /\ Parsable(metadata_file')
        /\ metadata_file'.block_size = block_size
        /\ metadata_file'.free_blocks = free_blocks'
        /\ metadata_file'.file_table = file_table'
        /\ metadata_file'.directory_structure = directory_structure']_vars

\* C16: a save that finds a metadata file copies it to a backup before it
\* rewrites it: after a successful create_file, delete_file or defragment,
\* each of which saves once, the newest metadata backup holds the metadata
\* file as it was before the call
C16_BackupIsPrevious ==
    [][(/\ steps' = steps + 1
        /\ last'.op \in {"create_file", "delete_file", "defragment"}
        /\ last'.ok
        /\ metadata_file # Absent) =>
        /\ MetaBackups(Cur') # {}
        /\ backup_dir'[Newest(MetaBackups(Cur'))] = metadata_file]_vars

----------------------------------------------------------------------------
(* Creation and removal *)

\* C17: create_file fails and keeps file_table, directory_structure and
\* free_blocks when the parent is not in the tree or the name is in the
\* parent's contents; otherwise it succeeds, and then the path has exactly one
\* record, with the byte length and the digest of the content and with blocks
\* that are in no other record and no longer in free_blocks, and the parent
\* holds a file reference to it
C17_CreateFile ==
    [][Calls("create_file") =>
        LET path == NormalizePath(last'.path)
            parent_dir == dirname(path)
            file_name == basename(path)
            id == FileId(path)
        IN IF \/ parent_dir \notin DOMAIN directory_structure
              \/ file_name \in OdKeys(directory_structure[parent_dir].contents)
           THEN /\ ~last'.ok
                /\ UNCHANGED <<file_table, directory_structure, free_blocks>>
           ELSE /\ last'.ok
                /\ {i \in DOMAIN file_table' : file_table'[i].path = path} = {id}
                /\ file_table'[id].size = ByteLen(last'.content)
                /\ file_table'[id].checksum = Md5(last'.content)
                /\ ListLen(file_table'[id].blocks) =
                      Ceil(ByteLen(last'.content), block_size)
                /\ Ids(file_table'[id].blocks) \cap Ids(free_blocks') = {}
                /\ \A i \in DOMAIN file_table' \ {id} :
                      Ids(file_table'[id].blocks) \cap Ids(file_table'[i].blocks) = {}
                /\ parent_dir \in DOMAIN directory_structure'
                /\ file_name \in OdKeys(directory_structure'[parent_dir].contents)
                /\ OdGet(directory_structure'[parent_dir].contents, file_name)
                      = FileRef(id)]_vars

\* the directories above a path, up to the root
RECURSIVE Ancestors(_)
Ancestors(p) ==
    IF dirname(p) = p \/ dirname(p) = <<>> THEN {}
    ELSE {dirname(p)} \cup Ancestors(dirname(p))

\* C18: create_directory of a path that is a directory of the tree fails and
\* keeps the tree; a success leaves the path and its ancestors in the tree,
\* each new directory referenced as a directory in its parent's contents; a
\* failure adds no directory to the tree
C18_CreateDirectory ==
    [][Calls("create_directory") =>
        LET path == NormalizePath(last'.path)
            new == (DOMAIN directory_structure') \ DOMAIN directory_structure
        IN /\ path \in DOMAIN directory_structure
                => ~last'.ok /\ directory_structure' = directory_structure
           /\ last'.ok =>
                /\ ({path} \cup Ancestors(path)) \subseteq DOMAIN directory_structure'
                /\ \A q \in new \ {<<"/">>} :
                      /\ dirname(q) \in DOMAIN directory_structure'
                      /\ basename(q) \in OdKeys(directory_structure'[dirname(q)].contents)
                      /\ OdGet(directory_structure'[dirname(q)].contents, basename(q))
                            = DirRef(q)
           /\ ~last'.ok => new = {}]_vars

\* C19: delete_directory of the root fails, and so does delete_directory
\* without recursive of a directory whose contents are not empty; both keep
\* file_table, directory_structure and free_blocks; the root is in the tree
\* after every step
C19_RootAndNonEmptyKept ==
    [][/\ Calls("delete_directory") =>
            LET path == NormalizePath(last'.path)
            IN (\/ path = <<"/">>
                \/ /\ last'.how = "plain"
                   /\ path \in DOMAIN directory_structure
                   /\ directory_structure[path].contents # <<>>)
               => /\ ~last'.ok
                  /\ UNCHANGED <<file_table, directory_structure, free_blocks>>
       /\ <<"/">> \in DOMAIN directory_structure']_vars

\* C19 witness: delete_directory without recursive has been refused for a
\* directory that holds a file
C19_RefusedNonEmpty ==
    /\ last.op = "delete_directory" /\ last.how = "plain" /\ ~last.ok
    /\ NormalizePath(last.path) \in DOMAIN directory_structure
    /\ NormalizePath(last.path) # <<"/">>
    /\ directory_structure[NormalizePath(last.path)].contents # <<>>

\* C20: every directory of the tree other than the root has its parent in
\* the tree
C20_ParentPresent ==
    \A p \in (DOMAIN directory_structure) \ {<<"/">>} :
        dirname(p) \in DOMAIN directory_structure

----------------------------------------------------------------------------
(* Per-file recovery *)

\* C21: a read_file changes neither file_table, directory_structure nor
\* free_blocks; the only physical content it writes is that of the file read,
\* taken from a backup whose checksum is the stored one, the newest of them;
\* when the content is corrupted, not served from the cache, and no backup has
\* the stored checksum, the physical content stays, is returned and is cached
C21_RecoveryWritesOnlyVerified ==
    [][Calls("read_file") =>
        LET path == NormalizePath(last'.path)
            pp == PhysicalPath(path)
            id == OdGet(directory_structure[dirname(path)].contents,
                        basename(path)).file_id
            matching == {n \in DOMAIN backup_dir :
                           Md5(backup_dir[n]) = file_table[id].checksum}
        IN /\ UNCHANGED <<file_table, directory_structure, free_blocks, backup_dir>>
           /\ DOMAIN phys_files' = DOMAIN phys_files
           /\ \A q \in DOMAIN phys_files :
                 phys_files'[q] # phys_files[q] =>
                    /\ q = pp /\ ResolvesToFile(path) /\ id \in DOMAIN file_table
                    /\ Md5(phys_files'[q]) = file_table[id].checksum
                    /\ \E n \in matching :
                          /\ phys_files'[q] = backup_dir[n]
                          /\ \A m \in matching : m.stem = n.stem => m.ts <= n.ts
           /\ (/\ ResolvesToFile(path)
               /\ id \in DOMAIN file_table
               /\ NotCached(path)
               /\ pp \in DOMAIN phys_files
               /\ Md5(phys_files[pp]) # file_table[id].checksum
               /\ matching = {})
              => /\ phys_files' = phys_files
                 /\ last'.out = Some(ReadText(phys_files[pp]))
                 /\ path \in OdKeys(read_cache')
                 /\ OdGet(read_cache', path) = ReadText(phys_files[pp])]_vars

\* C21 witness: a read has put a backup with the stored checksum in the place
\* of the corrupted content and returned it
C21_RestoredVerified ==
    /\ last.op = "read_file" /\ last.how = "restored"
    /\ LET path == NormalizePath(last.path)
           pp == PhysicalPath(path)
       IN /\ FileId(path) \in DOMAIN file_table
          /\ last.out = Some(ReadText(phys_files[pp]))
          /\ Md5(phys_files[pp]) = file_table[FileId(path)].checksum
          /\ HasFileBackup(pp)

----------------------------------------------------------------------------
(* Rescan *)

\* the virtual path of a physical path
Virtual(rel) == <<"/">> \o rel

\* C22: after a recovery by rescan file_table holds, for every physical file
\* and for nothing else, the record under the identifier of its path, with
\* the size and the digest of the physical content and ceil(size/block_size)
\* blocks that are in no other record and not in free_blocks, and
\* directory_structure has a key for every physical directory
C22_RescanRebuilds ==
    [][((Calls("load") \/ Calls("recover_metadata")) /\ last'.how = "rescan") =>
        /\ DOMAIN file_table' = {FileId(Virtual(q)) : q \in DOMAIN phys_files'}
        /\ \A q \in DOMAIN phys_files' :
              LET rec == file_table'[FileId(Virtual(q))]
              IN /\ rec.path = Virtual(q)
                 /\ rec.size = ByteLen(phys_files'[q])
                 /\ rec.checksum = Md5(phys_files'[q])
                 /\ ListLen(rec.blocks) = Ceil(rec.size, block_size)
                 /\ Ids(rec.blocks) \cap Ids(free_blocks') = {}
                 /\ \A i \in DOMAIN file_table' \ {FileId(Virtual(q))} :
                       Ids(rec.blocks) \cap Ids(file_table'[i].blocks) = {}
        /\ \A d \in phys_dirs' \ {BackupDirRel} :
              Virtual(d) \in DOMAIN directory_structure']_vars

----------------------------------------------------------------------------
(* Minting *)

\* C23: the blocks a successful create_file receives number ceil(size /
\* block_size) and are no longer in free_blocks, and those of them that were
\* not in the pool before the call, the minted ones, are greater than every
\* identifier that was in the pool or in a record
C23_MintedAboveAll ==
    [][(Calls("create_file") /\ last'.ok) =>
        LET id == FileId(NormalizePath(last'.path))
            got == Ids(file_table'[id].blocks)
            minted == got \ Ids(free_blocks)
        IN /\ ListLen(file_table'[id].blocks) =
                 Ceil(ByteLen(last'.content), block_size)
           /\ got \cap Ids(free_blocks') = {}
           /\ \A b \in minted :
                 \A x \in Ids(free_blocks) \cup AllocatedIds : b > x]_vars

----------------------------------------------------------------------------
(* The layout after defragment *)

\* C24: after a successful defragment each file's blocks are consecutive and
\* start right after the blocks of the files of smaller path, from 1; the
\* free blocks are the consecutive range from there up to the number of
\* blocks counted before the pass, and no identifier is held twice
C24_Compacted ==
    [][(Calls("defragment") /\ last'.ok) =>
        LET total == BlockTotal(file_table, free_blocks)
            used == SumLens(file_table', DOMAIN file_table')
            Before(i) == {j \in DOMAIN file_table' :
                            PathLess(file_table'[j].path, file_table'[i].path)}
        IN /\ \A i \in DOMAIN file_table' :
                 \E start \in {SumLens(file_table', Before(i))} :
                    Expand(file_table'[i].blocks) =
                       [k \in 1..ListLen(file_table'[i].blocks) |-> start + k]
           /\ Expand(free_blocks') = [k \in 1..(total - used) |-> used + k]
           /\ Cardinality(AllocatedIds' \cup Ids(free_blocks')) = total]_vars

\* C24 witness: a defragment has laid out two files, one of them of the size
\* of the whole initial pool, that held the same identifiers before the pass
C24_CompactedDuplicates ==
    /\ last.op = "defragment" /\ last.ok
    /\ Cardinality(DOMAIN file_table) >= 2
    /\ \E i \in DOMAIN file_table : ListLen(file_table[i].blocks) = InitialFreeBlocks
    /\ \E n \in DOMAIN backup_dir :
          /\ n = MetaBackupName(now)
          /\ Parsable(backup_dir[n])
          /\ DOMAIN backup_dir[n].file_table = DOMAIN file_table
          /\ \E i, j \in DOMAIN file_table :
                /\ i # j
                /\ Ids(backup_dir[n].file_table[i].blocks)
                      \cap Ids(backup_dir[n].file_table[j].blocks) # {}

----------------------------------------------------------------------------
(* Recursive removal *)

\* q is path or lies beneath it
Beneath(path, q) == q = path \/ IsPrefix(path \o <<"/">>, q)

\* C25: after a successful delete_directory(p, recursive=True) no key of
\* directory_structure and no record's path is p or lies beneath p, and the
\* blocks of the files that were beneath p are in free_blocks
C25_RecursiveRemovesAll ==
    [][(Calls("delete_directory") /\ last'.how = "recursive" /\ last'.ok) =>
        LET path == NormalizePath(last'.path)
        IN /\ \A k \in DOMAIN directory_structure' : ~Beneath(path, k)
           /\ \A i \in DOMAIN file_table' : ~Beneath(path, file_table'[i].path)
           /\ \A i \in DOMAIN file_table :
                 Beneath(path, file_table[i].path) =>
                    Ids(file_table[i].blocks) \subseteq Ids(free_blocks')]_vars

----------------------------------------------------------------------------
(* Normalized keys *)

\* C26: every key of directory_structure starts with "/" and, the root
\* apart, does not end with "/", and no directory has a child of empty name
C26_KeysNormalized ==
    \A k \in DOMAIN directory_structure :
        /\ k # <<>> /\ k[1] = "/"
        /\ k = <<"/">> \/ k[Len(k)] # "/"
        /\ <<>> \notin OdKeys(directory_structure[k].contents)

----------------------------------------------------------------------------
(* The benchmark *)

\* every record's checksum is the digest of its physical file
ChecksumsMatch(ft, files) ==
    \A i \in DOMAIN ft :
        /\ PhysicalPath(ft[i].path) \in DOMAIN files
        /\ ft[i].checksum = Md5(files[PhysicalPath(ft[i].path)])

\* C27: analyze_performance keeps the records' identifiers, paths, sizes and
\* numbers of blocks, directory_structure and the number of blocks, allocated
\* plus free; a physical file it changes holds 'x' times the size afterwards;
\* the checksums that matched the physical files before match them after; the
\* used_blocks and free_blocks it returns add up to total_blocks
C27_AnalyzeFrame ==
    [][Calls("analyze_performance") =>
        /\ DOMAIN file_table' = DOMAIN file_table
        /\ directory_structure' = directory_structure
        /\ \A i \in DOMAIN file_table :
              /\ file_table'[i].path = file_table[i].path
              /\ file_table'[i].size = file_table[i].size
              /\ ListLen(file_table'[i].blocks) = ListLen(file_table[i].blocks)
              /\ \E pp \in {PhysicalPath(file_table[i].path)} :
                    (pp \in DOMAIN phys_files /\ pp \in DOMAIN phys_files'
                        /\ phys_files'[pp] # phys_files[pp])
                    => phys_files'[pp] = Xs(file_table[i].size)
        /\ BlockTotal(file_table', free_blocks') = BlockTotal(file_table, free_blocks)
        /\ ChecksumsMatch(file_table, phys_files)
              => ChecksumsMatch(file_table', phys_files')
        /\ last'.stats.used_blocks + last'.stats.free_blocks
              = last'.stats.total_blocks]_vars

----------------------------------------------------------------------------
(* The linkage of the file table and the directory tree *)

\* the File children of the tree that refer to the record file_id, as pairs
\* of the directory's key and the child's name
FileLinks(file_id) ==
    {kn \in UNION {{<<k, n>> : n \in OdKeys(directory_structure[k].contents)} :
                        k \in DOMAIN directory_structure} :
        \E child \in {OdGet(directory_structure[kn[1]].contents, kn[2])} :
            child.type = "file" /\ child.file_id = file_id}

\* C28: every File child of a directory names a record of file_table whose
\* path is the directory's path joined with the child's name, and every
\* record is referred to by exactly one File child, in its parent directory
C28_LinkageOneToOne ==
    /\ \A k \in DOMAIN directory_structure :
          \A n \in OdKeys(directory_structure[k].contents) :
              \E child \in {OdGet(directory_structure[k].contents, n)} :
                  child.type = "file" =>
                      /\ child.file_id \in DOMAIN file_table
                      /\ file_table[child.file_id].path = PathJoin(k, n)
    /\ \A i \in DOMAIN file_table :
          \E links \in {FileLinks(i)} :
              /\ Cardinality(links) = 1
              /\ \A kn \in links : kn[1] = dirname(file_table[i].path)

\* C29: every directory of directory_structure but the root is a Directory
\* child, under its own name, of its parent's contents, and every Directory
\* child refers to a key of directory_structure
C29_DirectoriesRegistered ==
    /\ \A p \in (DOMAIN directory_structure) \ {<<"/">>} :
          /\ dirname(p) \in DOMAIN directory_structure
          /\ \E contents \in {directory_structure[dirname(p)].contents} :
                /\ basename(p) \in OdKeys(contents)
                /\ OdGet(contents, basename(p)).type = "directory"
    /\ \A k \in DOMAIN directory_structure :
          \A n \in OdKeys(directory_structure[k].contents) :
              \E child \in {OdGet(directory_structure[k].contents, n)} :
                  child.type = "directory" => child.path \in DOMAIN directory_structure

\* C30: a read_file(p) answered from the cache returns the content of the
\* live file at p: p has a record and a physical file, and the content
\* returned is the physical content, as written or as a read translates it
C30_CacheHitIsCurrent ==
    [][(Calls("read_file") /\ ~NotCached(last'.path))
       => \E pp \in {PhysicalPath(last'.path)} :
            /\ FileId(last'.path) \in DOMAIN file_table
            /\ pp \in DOMAIN phys_files
            /\ last'.out \in {Some(phys_files[pp]), Some(ReadText(phys_files[pp]))}]_vars

----------------------------------------------------------------------------
(* The cache's two dictionaries *)

\* C31: read_cache and cache_timestamps have the same keys
C31_CacheKeysAgree ==
    OdKeys(read_cache) = OdKeys(cache_timestamps)

----------------------------------------------------------------------------
(* The metadata file after a load *)

\* C32: when a load or a recover_metadata has returned, the metadata file
\* parses and holds the file_table, directory_structure and free_blocks of
\* the memory
C32_DurableAfterLoad ==
    (last.op \in {"load", "recover_metadata"} /\ last.how # "raised")
        => /\ Parsable(metadata_file)
           /\ metadata_file.file_table = file_table
           /\ metadata_file.directory_structure = directory_structure
           /\ metadata_file.free_blocks = free_blocks

----------------------------------------------------------------------------
(* write_file on a path that is not a file *)

\* C33: a write_file(p, c) on a path that does not resolve to a file returns
\* what create_file(p, c) returns from the same state and leaves the
\* file_table, directory_structure, free_blocks and physical tree that
\* create_file leaves; with p's parent absent it fails and adds no directory
\* and no record
C33_WriteAsCreate ==
    [][(Calls("write_file") /\ ~ResolvesToFile(NormalizePath(last'.path)))
       => \E r \in {create_file(Cur, last'.path, last'.content)} :
            /\ last'.ok = r.ret
            /\ file_table' = r.st.file_table
            /\ directory_structure' = r.st.directory_structure
            /\ free_blocks' = r.st.free_blocks
            /\ phys_files' = r.st.phys_files
            /\ phys_dirs' = r.st.phys_dirs
            /\ dirname(NormalizePath(last'.path)) \notin DOMAIN directory_structure
                  => /\ ~last'.ok
                     /\ DOMAIN directory_structure' = DOMAIN directory_structure
                     /\ DOMAIN file_table' = DOMAIN file_table]_vars

====
